---- MODULE Spec2Model ----
(***************************************************************************)
(* Greenblatt-Screener.py as a state machine.                              *)
(*                                                                         *)
(* The script loads a ticker list, fetches one record per ticker on a      *)
(* ThreadPoolExecutor, appends the results to `rows` in completion order,  *)
(* builds a DataFrame, filters, ranks, prints, reports the invalid and     *)
(* incomplete tickers and saves the ranking.                               *)
(*                                                                         *)
(* Numbers.  A cell is [tag, n, d]: Python None, a float NaN, or the exact *)
(* rational n/d (d > 0, reduced).  Exact rationals stand for the floats    *)
(* of the script; rounding of the quotients is not modelled.               *)
(***************************************************************************)
EXTENDS Integers, Sequences, FiniteSets, TLC

\* ---------------------------------------------------------------- bounds
\* Longest ticker list of the small pipeline (Spec).
MaxTickers == 3
\* Length of the ticker list of the worker-pool runs (PoolSpec).
PoolTickers == 6

\* ------------------------------------------------------- program constants
\* min(5, len(tickers)), line 137.
MaxWorkers == 5
\* valid_df["Tangible Capital"] > 1e6, line 164.
MinTangibleCapital == 1000000
\* valid_df["ROTC"] < 2, line 170.
MaxROTC == 2
\* valid_df["Earnings Yield"] < 1, line 170.
MaxEarningsYield == 1

\* Amounts of the provider records are multiples of half the capital floor.
Unit == MinTangibleCapital \div 2

\* ---------------------------------------------------------------- numbers
Abs(x) == IF x < 0 THEN -x ELSE x

RECURSIVE GCD(_, _)
GCD(a, b) == IF b = 0 THEN a ELSE GCD(b, a % b)

Min(a, b) == IF a <= b THEN a ELSE b

None == [tag |-> "none", n |-> 0, d |-> 1]
NaN == [tag |-> "nan", n |-> 0, d |-> 1]
\* The value an arithmetic exception (ZeroDivisionError, TypeError) leaves.
Raised == [tag |-> "raised", n |-> 0, d |-> 1]

\* The rational n/d, d # 0, reduced and with a positive denominator.
Rat(n, d) ==
  LET g == GCD(Abs(n), Abs(d))
      s == IF d < 0 THEN -1 ELSE 1
  IN [tag |-> "num", n |-> (s * n) \div g, d |-> (s * d) \div g]

Num(k) == [tag |-> "num", n |-> k, d |-> 1]

IsNum(x) == x.tag = "num"
\* pandas isna(): None and NaN are both missing values of a column.
IsNA(x) == x.tag \in {"none", "nan"}

\* Python truthiness of a number-or-None: None and 0 are falsy, NaN is truthy.
Truthy(x) == x.tag = "nan" \/ (x.tag = "num" /\ x.n # 0)

\* Python `x or y`.
Or(x, y) == IF Truthy(x) THEN x ELSE y

Add(x, y) ==
  IF x.tag = "raised" \/ y.tag = "raised" \/ x.tag = "none" \/ y.tag = "none" THEN Raised
  ELSE IF x.tag = "nan" \/ y.tag = "nan" THEN NaN
  ELSE Rat(x.n * y.d + y.n * x.d, x.d * y.d)

Neg(x) == IF IsNum(x) THEN [x EXCEPT !.n = -x.n] ELSE x

Sub(x, y) == Add(x, Neg(y))

Mul(x, y) ==
  IF x.tag = "raised" \/ y.tag = "raised" \/ x.tag = "none" \/ y.tag = "none" THEN Raised
  ELSE IF x.tag = "nan" \/ y.tag = "nan" THEN NaN
  ELSE Rat(x.n * y.n, x.d * y.d)

\* Python `x / y`: division by zero raises.
Div(x, y) ==
  IF x.tag = "raised" \/ y.tag = "raised" \/ x.tag = "none" \/ y.tag = "none" THEN Raised
  ELSE IF IsNum(y) /\ y.n = 0 THEN Raised
  ELSE IF x.tag = "nan" \/ y.tag = "nan" THEN NaN
  ELSE Rat(x.n * y.d, x.d * y.n)

\* Comparisons of two cells; any comparison with a missing value is False.
Less(x, y) == IsNum(x) /\ IsNum(y) /\ x.n * y.d < y.n * x.d
Greater(x, y) == Less(y, x)

\* ----------------------------------------------------------- the provider
\* A frame (DataFrame or dict) is a function from the keys it holds to cells.
EmptyFrame == << >>

\* The frame holding the keys of f whose cell is not the marker "missing".
Missing == [tag |-> "missing", n |-> 0, d |-> 1]
Frame(f) == [k \in {j \in DOMAIN f : f[j] # Missing} |-> f[k]]

\* get_first_available(df, keys), lines 68-72.
RECURSIVE get_first_available(_, _)
get_first_available(df, keys) ==
  IF keys = << >> THEN None
  ELSE IF Head(keys) \in DOMAIN df THEN df[Head(keys)]
  ELSE get_first_available(df, Tail(keys))

\* info.get(key)
InfoGet(info, key) == IF key \in DOMAIN info THEN info[key] ELSE None

\* ------------------------------------------------------ fetch_ticker_data
\* {"Ticker": t, "Error": message}, lines 86, 91 and 131.
ErrorRow(t, message) == ("Ticker" :> t) @@ ("Error" :> message)

\* The ratio without the test of the denominator.
rotc_unguarded(ebit, tangible_cap) ==
  IF ebit # None THEN Div(ebit, tangible_cap) ELSE None

\* rotc = ebit / tangible_cap if (ebit is not None and tangible_cap) else None,
\* line 112.
rotc_of(ebit, tangible_cap) ==
  IF ebit # None /\ Truthy(tangible_cap) THEN Div(ebit, tangible_cap) ELSE None

\* earnings_yield = ebit / ev if (ebit is not None and ev) else None, line 119.
earnings_yield_of(ebit, ev) ==
  IF ebit # None /\ Truthy(ev) THEN Div(ebit, ev) ELSE None

\* op_nwc and tangible_cap, lines 94-111.
tangible_cap_of(bs) ==
  LET total_current_assets == get_first_available(bs, <<"Total Current Assets">>)
      cash == get_first_available(bs, <<"Cash And Cash Equivalents",
                 "Cash Cash Equivalents And Short Term Investments", "Cash">>)
      total_current_liabilities ==
        get_first_available(bs, <<"Total Current Liabilities">>)
      short_term_debt == get_first_available(bs, <<"Short Term Debt", "Current Debt">>)
      net_ppe == get_first_available(bs, <<"Property Plant Equipment",
                 "Property, Plant & Equipment Net", "Net PPE">>)
      op_nwc == Add(Sub(Sub(Or(total_current_assets, Num(0)), Or(cash, Num(0))),
                        Or(total_current_liabilities, Num(0))),
                    Or(short_term_debt, Num(0)))
  IN Add(Or(net_ppe, Num(0)), op_nwc)

\* market_cap, lines 114-116.
market_cap_of(info) ==
  LET market_cap == InfoGet(info, "marketCap")
  IN IF market_cap = None /\ Truthy(InfoGet(info, "sharesOutstanding"))
                          /\ Truthy(InfoGet(info, "currentPrice"))
     THEN Mul(info["sharesOutstanding"], info["currentPrice"])
     ELSE market_cap

\* ev, lines 95-99, 107 and 118.
ev_of(info, bs) ==
  LET cash == get_first_available(bs, <<"Cash And Cash Equivalents",
                 "Cash Cash Equivalents And Short Term Investments", "Cash">>)
      total_debt == Or(get_first_available(bs, <<"Total Debt", "Long Term Debt">>), Num(0))
  IN Sub(Add(Or(market_cap_of(info), Num(0)), Or(total_debt, Num(0))), Or(cash, Num(0)))

\* The dict of lines 121-128.
DataRow(t, ebit, tangible_cap, rotc, ev, earnings_yield) ==
  ("Ticker" :> t) @@ ("EBIT" :> ebit) @@ ("Tangible Capital" :> tangible_cap)
    @@ ("ROTC" :> rotc) @@ ("EV" :> ev) @@ ("Earnings Yield" :> earnings_yield)

\* Lines 93-128: the extraction from a resolved quote with both statements.
extract(t, info, bs, is_) ==
  LET ebit == get_first_available(is_, <<"EBIT", "Ebit", "Operating Income">>)
      tangible_cap == tangible_cap_of(bs)
      rotc == rotc_of(ebit, tangible_cap)
      ev == ev_of(info, bs)
      earnings_yield == earnings_yield_of(ebit, ev)
  IN IF Raised \in {tangible_cap, rotc, ev, earnings_yield}
     THEN ErrorRow(t, "arithmetic error")
     ELSE DataRow(t, ebit, tangible_cap, rotc, ev, earnings_yield)

\* fetch_ticker_data without the longName probe of line 85.
fetch_ticker_data_unprobed(t, p) ==
  IF p.faultAt # "none" THEN ErrorRow(t, p.message)
  ELSE IF DOMAIN p.bs = {} \/ DOMAIN p.is_ = {}
    THEN ErrorRow(t, "Empty financials")
  ELSE extract(t, p.info, p.bs, p.is_)

\* fetch_ticker_data(t), lines 77-131.  p is what the provider does for t:
\* p.faultAt names the property whose read raises ("none" when none does),
\* p.message the text of that exception.
fetch_ticker_data(t, p) ==
  IF p.faultAt = "info" THEN ErrorRow(t, p.message)
  ELSE IF DOMAIN p.info = {} \/ "longName" \notin DOMAIN p.info
    THEN ErrorRow(t, "Quote not found")
  ELSE IF p.faultAt = "statements" THEN ErrorRow(t, p.message)
  ELSE IF DOMAIN p.bs = {} \/ DOMAIN p.is_ = {}
    THEN ErrorRow(t, "Empty financials")
  ELSE extract(t, p.info, p.bs, p.is_)

\* ------------------------------------------------------------- the state
VARIABLES
  tickers,    \* the loaded ticker list, lines 54-59
  provider,   \* what Yahoo answers for each ticker (fixed for the run)
  queue,      \* submitted work items no worker has taken yet, in order
  running,    \* the work items a worker thread is executing
  future,     \* each future's result once its task returned, else NotDone
  yielded,    \* the futures as_completed has handed to the main loop
  calls,      \* how often fetch_ticker_data was run for each work item
  rows,       \* line 136, appended to on line 146
  pc,         \* where the main thread is
  no_data,    \* line 157
  valid_df,   \* lines 158-177
  invalid,    \* line 208
  incomplete, \* line 209
  files       \* the CSV files written so far

vars == <<tickers, provider, queue, running, future, yielded, calls, rows, pc,
          no_data, valid_df, invalid, incomplete, files>>

NotDone == << >>

\* The ticker names, in the order sorted() gives them.
Symbols == <<"A.L", "B.L", "C.L", "D.L", "E.L", "F.L", "G.L", "H.L">>

\* max_threads = min(5, len(tickers)), line 137.
max_threads == Min(MaxWorkers, Len(tickers))

\* The set of a sequence's elements.
Range(s) == {s[i] : i \in DOMAIN s}

\* ----------------------------------------------------------- the DataFrame
\* df[c] raises KeyError unless some row holds the key c.
HasColumn(df, c) == \E i \in DOMAIN df : c \in DOMAIN df[i]

\* The cell of row r in column c: a row without the key holds NaN there.
Col(r, c) == IF c \in DOMAIN r THEN r[c] ELSE NaN

\* no_data that also takes the rows the Greenblatt filters drop.
LacksData_orFiltered(r) ==
  \/ IsNA(Col(r, "EBIT")) \/ IsNA(Col(r, "EV")) \/ IsNA(Col(r, "Tangible Capital"))
  \/ ~Greater(Col(r, "EBIT"), Num(0))
  \/ ~Greater(Col(r, "EV"), Num(0))
  \/ ~Greater(Col(r, "Tangible Capital"), Num(MinTangibleCapital))

\* df["EBIT"].isna() | df["EV"].isna() | df["Tangible Capital"].isna(), line 157.
LacksData(r) ==
  IsNA(Col(r, "EBIT")) \/ IsNA(Col(r, "EV")) \/ IsNA(Col(r, "Tangible Capital"))

\* The filters with the capital floor itself let through.
PassesFilters_floorIncluded(r) ==
  /\ Greater(r["EBIT"], Num(0))
  /\ Greater(r["EV"], Num(0))
  /\ ~Less(r["Tangible Capital"], Num(MinTangibleCapital))

\* The Greenblatt filters, lines 161-165.
PassesFilters(r) ==
  /\ Greater(r["EBIT"], Num(0))
  /\ Greater(r["EV"], Num(0))
  /\ Greater(r["Tangible Capital"], Num(MinTangibleCapital))

\* The recomputed metrics, lines 168-169.
WithMetrics(r) ==
  ("ROTC" :> Div(r["EBIT"], r["Tangible Capital"]))
    @@ ("Earnings Yield" :> Div(r["EBIT"], r["EV"])) @@ r

\* Line 170.
PassesRatioCaps(r) ==
  Less(r["ROTC"], Num(MaxROTC)) /\ Less(r["Earnings Yield"], Num(MaxEarningsYield))

RECURSIVE MapMetrics(_)
MapMetrics(df) ==
  IF df = << >> THEN << >> ELSE <<WithMetrics(Head(df))>> \o MapMetrics(Tail(df))

\* valid_df after line 170.
Eligible(df) ==
  LET dropped == SelectSeq(df, LAMBDA r : ~LacksData(r))
      filtered == SelectSeq(dropped, PassesFilters)
  IN SelectSeq(MapMetrics(filtered), PassesRatioCaps)

RECURSIVE SumOf(_)
SumOf(S) == IF S = {} THEN 0 ELSE LET x == CHOOSE y \in S : TRUE IN x + SumOf(S \ {x})

\* The rank with method="min": one more than the number of larger values.
rank_competition(df, c, v) ==
  Num(Cardinality({j \in DOMAIN df : Greater(df[j][c], v)}) + 1)

\* Series.rank(ascending=False) with the default method="average": the rows
\* holding v take the places g+1 .. g+e of the descending order, g the number
\* of larger values and e the number of equal ones; each gets their mean.
rank(df, c, v) ==
  LET g == Cardinality({j \in DOMAIN df : Greater(df[j][c], v)})
      e == Cardinality({j \in DOMAIN df : df[j][c] = v})
  IN Rat(SumOf((g + 1) .. (g + e)), e)

\* Lines 173-175.
Scored(df) ==
  [i \in DOMAIN df |->
     LET rank_rotc == rank(df, "ROTC", df[i]["ROTC"])
         rank_ey == rank(df, "Earnings Yield", df[i]["Earnings Yield"])
     IN ("Rank_ROTC" :> rank_rotc) @@ ("Rank_EY" :> rank_ey)
          @@ ("Magic_Rank_Score" :> Add(rank_rotc, rank_ey)) @@ df[i]]

\* sort_values("Magic_Rank_Score"), line 176: the default kind is quicksort,
\* which is not stable, so rows of equal score come out in any order.
SortOrders(df) ==
  {p \in Permutations(DOMAIN df) :
     \A i, j \in DOMAIN df :
       i < j => ~Less(df[p[j]]["Magic_Rank_Score"], df[p[i]]["Magic_Rank_Score"])}

\* reset_index and Magic_Rank = index + 1, lines 176-177.
Sorted(df, p) == [i \in DOMAIN df |-> ("Magic_Rank" :> i) @@ df[p[i]]]

\* The tickers of a frame, in row order.
TickerColumn(df) == [i \in DOMAIN df |-> df[i]["Ticker"]]

\* Series.unique(): the first occurrence of each value, in order.
RECURSIVE Unique(_)
Unique(s) ==
  IF s = << >> THEN << >>
  ELSE LET front == Unique(SubSeq(s, 1, Len(s) - 1))
       IN IF s[Len(s)] \in Range(front) THEN front ELSE Append(front, s[Len(s)])

\* sorted(S) of a set of ticker names.
SortedNames(S) == SelectSeq(Symbols, LAMBDA t : t \in S)

\* ------------------------------------------------------------- the actions
\* Start without the pool's thread cap.
Start_uncapped(i) ==
  /\ pc = "fetch"
  /\ queue # << >>
  /\ i = Head(queue)
  /\ queue' = Tail(queue)
  /\ running' = running \cup {i}
  /\ UNCHANGED <<tickers, provider, future, yielded, calls, rows, pc,
                 no_data, valid_df, invalid, incomplete, files>>

\* A worker thread of the pool takes the oldest work item; the pool holds at
\* most max_threads threads, each running one item at a time (lines 140-141).
Start(i) ==
  /\ pc = "fetch"
  /\ queue # << >>
  /\ i = Head(queue)
  /\ Cardinality(running) < max_threads
  /\ queue' = Tail(queue)
  /\ running' = running \cup {i}
  /\ UNCHANGED <<tickers, provider, future, yielded, calls, rows, pc,
                 no_data, valid_df, invalid, incomplete, files>>

\* The task of work item i runs fetch_ticker_data to its return (lines 77-131)
\* and its future is set.
Finish(i) ==
  /\ i \in running
  /\ running' = running \ {i}
  /\ calls' = [calls EXCEPT ![i] = @ + 1]
  /\ future' = [future EXCEPT ![i] = fetch_ticker_data(tickers[i], provider[tickers[i]])]
  /\ UNCHANGED <<tickers, provider, queue, yielded, rows, pc,
                 no_data, valid_df, invalid, incomplete, files>>

\* Collect that keeps no row for a ticker whose fetch ended in an error.
Collect_dropsErrors(i) ==
  /\ pc = "fetch"
  /\ i \in DOMAIN future
  /\ future[i] # NotDone
  /\ i \notin yielded
  /\ yielded' = yielded \cup {i}
  /\ rows' = IF "Error" \in DOMAIN future[i] THEN rows ELSE Append(rows, future[i])
  /\ pc' = IF yielded' = DOMAIN future THEN "rank" ELSE "fetch"
  /\ UNCHANGED <<tickers, provider, queue, running, future, calls,
                 no_data, valid_df, invalid, incomplete, files>>

\* One pass of the loop of lines 142-149: as_completed yields a finished
\* future and its result is appended; after the last one the with-block ends.
Collect(i) ==
  /\ pc = "fetch"
  /\ i \in DOMAIN future
  /\ future[i] # NotDone
  /\ i \notin yielded
  /\ yielded' = yielded \cup {i}
  /\ rows' = Append(rows, future[i])
  /\ pc' = IF yielded' = DOMAIN future THEN "rank" ELSE "fetch"
  /\ UNCHANGED <<tickers, provider, queue, running, future, calls,
                 no_data, valid_df, invalid, incomplete, files>>

\* Lines 156-199: the DataFrame, the filters, the ranks, the sort and the
\* printed ranking.  df["EBIT"] raises KeyError when no row holds the key.
Rank ==
  /\ pc = "rank"
  /\ IF ~(HasColumn(rows, "EBIT") /\ HasColumn(rows, "EV")
            /\ HasColumn(rows, "Tangible Capital"))
     THEN /\ pc' = "aborted"
          /\ UNCHANGED <<no_data, valid_df>>
     ELSE /\ no_data' = SelectSeq(rows, LacksData)
          /\ \E p \in SortOrders(Scored(Eligible(rows))) :
               valid_df' = Sorted(Scored(Eligible(rows)), p)
          /\ pc' = "report"
  /\ UNCHANGED <<tickers, provider, queue, running, future, yielded, calls, rows,
                 invalid, incomplete, files>>

\* Lines 206-222.  df["Error"] raises KeyError when no row holds the key.
Report ==
  /\ pc = "report"
  /\ IF no_data # << >>
     THEN IF ~HasColumn(rows, "Error")
          THEN /\ pc' = "aborted"
               /\ UNCHANGED <<invalid, incomplete, files>>
          ELSE LET missing_unique == SortedNames(Range(TickerColumn(no_data)))
                   inv == Unique(TickerColumn(
                            SelectSeq(rows, LAMBDA r : "Error" \in DOMAIN r)))
                   inc == SelectSeq(missing_unique, LAMBDA t : t \notin Range(inv))
               IN /\ invalid' = inv
                  /\ incomplete' = inc
                  /\ files' = files
                       \cup (IF inv # << >> THEN {"invalid_tickers.csv"} ELSE {})
                       \cup (IF inc # << >> THEN {"missing_tickers.csv"} ELSE {})
                  /\ pc' = "save"
     ELSE /\ pc' = "save"
          /\ UNCHANGED <<invalid, incomplete, files>>
  /\ UNCHANGED <<tickers, provider, queue, running, future, yielded, calls, rows,
                 no_data, valid_df>>

\* Lines 227-228.
Save ==
  /\ pc = "save"
  /\ files' = files \cup {"greenblatt_results.csv"}
  /\ pc' = "done"
  /\ UNCHANGED <<tickers, provider, queue, running, future, yielded, calls, rows,
                 no_data, valid_df, invalid, incomplete>>

Next ==
  \/ \E i \in DOMAIN future : Start(i)
  \/ \E i \in DOMAIN future : Finish(i)
  \/ \E i \in DOMAIN future : Collect(i)
  \/ Rank
  \/ Report
  \/ Save

\* ------------------------------------------------------ provider answers
Str == [tag |-> "str", n |-> 0, d |-> 1]

\* A quote that resolves, with both statements: EBIT e, net PP&E c and market
\* capitalisation m, in Units.
Quote(e, c, m) ==
  [faultAt |-> "none", message |-> "",
   info |-> ("longName" :> Str) @@ ("marketCap" :> Num(m * Unit)),
   bs |-> ("Net PPE" :> Num(c * Unit)),
   is_ |-> ("EBIT" :> Num(e * Unit))]

\* ROTC 0.30, earnings yield 0.10.
QuoteA == Quote(3, 10, 30)
\* ROTC 0.20, earnings yield 0.20.
QuoteB == Quote(2, 10, 10)
\* Tangible capital of exactly 1e6.
QuoteShell == Quote(1, 2, 30)
\* An income statement without any of the EBIT rows.
QuoteNoEbit == [QuoteA EXCEPT !.is_ = ("Total Revenue" :> Num(4 * Unit))]
\* An info mapping without longName.
QuoteNotFound == [QuoteA EXCEPT !.info = ("trailingPegRatio" :> None)]
\* A resolved quote with an empty balance sheet.
QuoteEmpty == [QuoteA EXCEPT !.bs = EmptyFrame]
\* Reading stock.info raises.
QuoteFault == [QuoteA EXCEPT !.faultAt = "info", !.message = "Too Many Requests"]

Responses ==
  {QuoteA, QuoteB, QuoteShell, QuoteNoEbit, QuoteNotFound, QuoteEmpty, QuoteFault}

\* ------------------------------------------------------ the specifications
\* The state when the executor has taken every ticker (line 141).
Begin(ts, prov) ==
  /\ tickers = ts
  /\ provider = prov
  /\ queue = [i \in 1 .. Len(ts) |-> i]
  /\ running = {}
  /\ future = [i \in 1 .. Len(ts) |-> NotDone]
  /\ yielded = {}
  /\ calls = [i \in 1 .. Len(ts) |-> 0]
  /\ rows = << >>
  /\ pc = "fetch"
  /\ no_data = << >>
  /\ valid_df = << >>
  /\ invalid = << >>
  /\ incomplete = << >>
  /\ files = {}

\* Up to MaxTickers distinct tickers, each with any of the Responses.
Init ==
  \E n \in 1 .. MaxTickers :
    \E prov \in [Range(SubSeq(Symbols, 1, n)) -> Responses] :
      Begin(SubSeq(Symbols, 1, n), prov)

Spec == Init /\ [][Next]_vars

\* The worker-pool runs: up to PoolTickers tickers, more than the pool has
\* threads, under three provider profiles: every read raises; two equal
\* quotes and the rest not found; quotes only, the first without EBIT.
PoolProviders(ts) ==
  {[t \in Range(ts) |-> QuoteFault],
   [t \in Range(ts) |-> IF t \in {ts[1], ts[Min(2, Len(ts))]} THEN QuoteA ELSE QuoteNotFound],
   [t \in Range(ts) |-> IF t = ts[1] THEN QuoteNoEbit
                        ELSE IF t = ts[Min(2, Len(ts))] THEN QuoteA ELSE QuoteShell]}

PoolInit ==
  \E n \in 1 .. PoolTickers :
    \E prov \in PoolProviders(SubSeq(Symbols, 1, n)) :
      Begin(SubSeq(Symbols, 1, n), prov)

PoolSpec == PoolInit /\ [][Next]_vars

\* The pool's workers are operating-system threads that keep being scheduled:
\* an idle worker takes the oldest queued item, and a running task leaves the
\* running set, because a provider read returns or raises.
FairPoolSpec ==
  /\ PoolSpec
  /\ WF_vars(\E i \in DOMAIN future : Start(i))
  /\ WF_running(\E i \in running : running' = running \ {i})

\* The extraction runs: one ticker, its quote drawn from a product of cells.
U(k) == Num(k * Unit)

IncomeStatements ==
  {EmptyFrame} \cup
  {Frame(("EBIT" :> ebit) @@ ("Operating Income" :> oi) @@ ("Total Revenue" :> U(9))) :
     ebit \in {Missing, NaN, U(-2), U(0), U(4), U(6)}, oi \in {Missing, U(2)}}

BalanceSheets ==
  {EmptyFrame} \cup
  {Frame(("Total Current Assets" :> f[1]) @@ ("Cash And Cash Equivalents" :> f[2])
           @@ ("Cash" :> f[3]) @@ ("Total Current Liabilities" :> f[4])
           @@ ("Current Debt" :> f[5]) @@ ("Net PPE" :> f[6]) @@ ("Total Debt" :> f[7])
           @@ ("Long Term Debt" :> U(4))) :
     f \in {Missing, U(4)} \X {Missing, U(1)} \X {Missing, U(2)} \X {Missing, U(2)}
           \X {Missing, U(1)} \X {Missing, NaN, U(1)} \X {Missing, U(0), U(2)}}

Infos ==
  {EmptyFrame, ("trailingPegRatio" :> None)} \cup
  {Frame(("longName" :> Str) @@ ("marketCap" :> g[1])
           @@ ("sharesOutstanding" :> g[2][1]) @@ ("currentPrice" :> g[2][2])) :
     g \in ({Missing, U(4)} \X {<<Missing, Missing>>, <<Num(2), U(1)>>})
           \cup {<<None, <<Num(2), U(1)>> >>}}

ExtractQuotes ==
  {[faultAt |-> "none", message |-> "", info |-> info, bs |-> bs, is_ |-> is_] :
     info \in Infos, bs \in BalanceSheets, is_ \in IncomeStatements}
  \cup {[QuoteA EXCEPT !.faultAt = "statements", !.message = "Read timed out"], QuoteFault}

ExtractInit ==
  \E q \in ExtractQuotes : Begin(<<Symbols[1]>>, (Symbols[1] :> q))

ExtractSpec == ExtractInit /\ [][Next]_vars

\* ---------------------------------------------------------------- claims
\* Vocabulary of the claims.
Pos(t) == CHOOSE i \in DOMAIN tickers : tickers[i] = t
Fetched(t) == future[Pos(t)] # NotDone
Outcome(t) == future[Pos(t)]
IsDataRow(r) ==
  DOMAIN r = {"Ticker", "EBIT", "Tangible Capital", "ROTC", "EV", "Earnings Yield"}
IsErrorRow(r) == DOMAIN r = {"Ticker", "Error"}
FetchOver == pc # "fetch"
Ranked == pc \in {"report", "save", "done"} \/ (pc = "aborted" /\ HasColumn(rows, "EBIT"))
RankedTickers == Range(TickerColumn(valid_df))
\* What the provider did for t, read off its answer.
ReadRaises(t) ==
  \/ provider[t].faultAt = "info"
  \/ provider[t].faultAt = "statements" /\ "longName" \in DOMAIN provider[t].info
LacksExistenceSignal(t) ==
  provider[t].faultAt # "info" /\ "longName" \notin DOMAIN provider[t].info
StatementsEmpty(t) ==
  /\ provider[t].faultAt = "none"
  /\ "longName" \in DOMAIN provider[t].info
  /\ (DOMAIN provider[t].bs = {} \/ DOMAIN provider[t].is_ = {})
ReturnsData(t) ==
  /\ provider[t].faultAt = "none"
  /\ "longName" \in DOMAIN provider[t].info
  /\ DOMAIN provider[t].bs # {}
  /\ DOMAIN provider[t].is_ # {}

\* C2: once the fetch phase is over, rows holds exactly one outcome for every
\* input ticker, and each outcome is whole: an error row or a row with all six
\* metric keys, whatever the provider did.
C2_OneOutcomePerTicker ==
  FetchOver =>
    /\ Len(rows) = Len(tickers)
    /\ \A t \in Range(tickers) :
         Cardinality({i \in DOMAIN rows : rows[i]["Ticker"] = t}) = 1
    /\ \A i \in DOMAIN rows : IsDataRow(rows[i]) \/ IsErrorRow(rows[i])

C2_Witness ==
  /\ pc = "rank"
  /\ Len(tickers) = 3
  /\ \E a, b, c \in Range(tickers) :
       /\ ReadRaises(a) /\ StatementsEmpty(b) /\ ReturnsData(c)
       /\ \E i, j, k \in DOMAIN rows :
            /\ rows[i]["Ticker"] = a /\ IsErrorRow(rows[i])
            /\ rows[j]["Ticker"] = b /\ IsErrorRow(rows[j])
            /\ rows[k]["Ticker"] = c /\ IsDataRow(rows[k])

\* C7: a ticker is in the ranked output exactly when its fetch returned EBIT > 0,
\* EV > 0, Tangible Capital > 1e6 (all present) with EBIT / Tangible Capital < 2
\* and EBIT / EV < 1; the boundary values are excluded.
MeetsBounds(r) ==
  /\ IsDataRow(r)
  /\ IsNum(r["EBIT"]) /\ IsNum(r["EV"]) /\ IsNum(r["Tangible Capital"])
  /\ r["EBIT"].n > 0
  /\ r["EV"].n > 0
  /\ r["Tangible Capital"].n > 1000000
  /\ r["EBIT"].n < 2 * r["Tangible Capital"].n
  /\ r["EBIT"].n < r["EV"].n

C7_RankedIffEligible ==
  Ranked => \A t \in Range(tickers) : (t \in RankedTickers) <=> MeetsBounds(Outcome(t))

\* A run whose only ticker has Tangible Capital = 1e6 exactly and is left out.
C7_Witness ==
  /\ pc = "save"
  /\ \E t \in Range(tickers) :
       /\ IsDataRow(Outcome(t))
       /\ Outcome(t)["Tangible Capital"] = Num(1000000)
       /\ Greater(Outcome(t)["EBIT"], Num(0))
       /\ Greater(Outcome(t)["EV"], Outcome(t)["EBIT"])
       /\ t \notin RankedTickers

\* C10: extraction gives ROTC absent whenever EBIT is absent or Tangible
\* Capital is absent or zero, Earnings Yield absent whenever EBIT is absent or
\* EV is absent or zero; a present ratio is EBIT over a non-zero denominator;
\* and a resolved quote with both statements never ends as an error row.
RatioSound(r, ratio, denominator) ==
  /\ (IsNA(r["EBIT"]) \/ IsNA(r[denominator]) \/ r[denominator] = Num(0)) => IsNA(r[ratio])
  /\ ~IsNA(r[ratio]) =>
       /\ IsNum(r[ratio]) /\ IsNum(r["EBIT"]) /\ IsNum(r[denominator])
       /\ r[denominator].n # 0
       /\ r[ratio].n * r[denominator].n = r["EBIT"].n * r[ratio].d * r[denominator].d

C10_RatiosGuarded ==
  \A t \in Range(tickers) :
    (Fetched(t) /\ ReturnsData(t)) =>
      /\ IsDataRow(Outcome(t))
      /\ RatioSound(Outcome(t), "ROTC", "Tangible Capital")
      /\ RatioSound(Outcome(t), "Earnings Yield", "EV")

\* EBIT present, both denominators zero, both ratios None.
C10_Witness ==
  \E t \in Range(tickers) :
    /\ Fetched(t) /\ ReturnsData(t)
    /\ IsNum(Outcome(t)["EBIT"]) /\ Outcome(t)["EBIT"].n # 0
    /\ Outcome(t)["Tangible Capital"] = Num(0)
    /\ Outcome(t)["EV"] = Num(0)
    /\ Outcome(t)["ROTC"] = None
    /\ Outcome(t)["Earnings Yield"] = None

\* C8: at most min(5, number of tickers) fetch tasks run at any moment, a
\* queued ticker is started only while fewer are running, no ticker's fetch
\* runs more than once, and every ticker is eventually fetched.
C8_PoolBounded ==
  /\ [](/\ Cardinality(running) <= Min(5, Len(tickers))
        /\ \A i \in DOMAIN calls : calls[i] <= 1)
  /\ [][queue' # queue => Cardinality(running) < Min(5, Len(tickers))]_vars
  /\ <>(\A i \in DOMAIN calls : calls[i] = 1 /\ future[i] # NotDone)

\* Five tasks running while a sixth ticker waits in the queue.
C8_Witness == Cardinality(running) = 5 /\ queue # << >> /\ Len(tickers) > 5

\* C5 as stated: competition ranks, 1 + the number of strictly greater values.
LargerIn(c, i) ==
  Cardinality({j \in DOMAIN valid_df : Greater(valid_df[j][c], valid_df[i][c])})
EqualIn(c, i) ==
  Cardinality({j \in DOMAIN valid_df : valid_df[j][c] = valid_df[i][c]})
ScoreIsSum(i) ==
  valid_df[i]["Magic_Rank_Score"] = Add(valid_df[i]["Rank_ROTC"], valid_df[i]["Rank_EY"])

C5_CompetitionRanks ==
  Ranked => \A i \in DOMAIN valid_df :
    /\ valid_df[i]["Rank_ROTC"] = Num(1 + LargerIn("ROTC", i))
    /\ valid_df[i]["Rank_EY"] = Num(1 + LargerIn("Earnings Yield", i))
    /\ ScoreIsSum(i)

\* C5 as amended: a rank is the number of strictly greater values plus half of
\* (the number of equal values, the entry included, plus one): the mean of the
\* places the tied entries take.  The score is the sum of the two ranks.  For
\* A(0.30, 0.10), B(0.20, 0.20), C(0.30, 0.10): Rank_ROTC 1.5, 3, 1.5; Rank_EY
\* 2.5, 1, 2.5; score 4, 4, 4.
ExampleABC ==
  /\ Len(tickers) = 3
  /\ provider[tickers[1]] = QuoteA
  /\ provider[tickers[2]] = QuoteB
  /\ provider[tickers[3]] = QuoteA

C5_AverageRanks ==
  Ranked =>
    /\ \A i \in DOMAIN valid_df :
         /\ valid_df[i]["Rank_ROTC"] = Rat(2 * LargerIn("ROTC", i) + EqualIn("ROTC", i) + 1, 2)
         /\ valid_df[i]["Rank_EY"] =
              Rat(2 * LargerIn("Earnings Yield", i) + EqualIn("Earnings Yield", i) + 1, 2)
         /\ ScoreIsSum(i)
    /\ ExampleABC =>
         /\ Len(valid_df) = 3
         /\ \A i \in DOMAIN valid_df :
              /\ valid_df[i]["Rank_ROTC"] =
                   (IF valid_df[i]["Ticker"] = tickers[2] THEN Num(3) ELSE Rat(3, 2))
              /\ valid_df[i]["Rank_EY"] =
                   (IF valid_df[i]["Ticker"] = tickers[2] THEN Num(1) ELSE Rat(5, 2))
              /\ valid_df[i]["Magic_Rank_Score"] = Num(4)

C5_Witness == pc = "done" /\ ExampleABC /\ Len(valid_df) = 3

\* C4 as stated: a ticker without the existence signal never shares a reported
\* list with a ticker whose read raised or whose statements were empty.
C4_NotFoundOwnBucket ==
  \A s, t \in Range(tickers) :
    (LacksExistenceSignal(s) /\ (ReadRaises(t) \/ StatementsEmpty(t))) =>
      ~(s \in Range(invalid) /\ t \in Range(invalid))

\* C4 as amended: a ticker whose info is empty or lacks longName ends as the
\* error row "Quote not found"; it is never ranked and never listed as
\* incomplete, and a run that reaches the report lists it as invalid, in the
\* one list that also holds the tickers whose read raised and those whose
\* statements were empty.
C4_NotFoundIsInvalid ==
  \A t \in Range(tickers) :
    LacksExistenceSignal(t) =>
      /\ Fetched(t) => Outcome(t) = ErrorRow(t, "Quote not found")
      /\ t \notin Range(incomplete)
      /\ t \notin RankedTickers
      /\ pc \in {"save", "done"} =>
           /\ t \in Range(invalid)
           /\ \A u \in Range(tickers) :
                (ReadRaises(u) \/ StatementsEmpty(u)) => u \in Range(invalid)

C4_Witness ==
  /\ pc = "done"
  /\ \E s, t \in Range(tickers) :
       /\ LacksExistenceSignal(s) /\ ReadRaises(t)
       /\ {s, t} \subseteq Range(invalid)
       /\ Outcome(s) = ErrorRow(s, "Quote not found")

\* C6 as stated: at the end every input ticker is in exactly one reported
\* place: the ranking, the invalid list or the incomplete list.
Places(t) ==
  (IF t \in RankedTickers THEN 1 ELSE 0) + (IF t \in Range(invalid) THEN 1 ELSE 0)
    + (IF t \in Range(incomplete) THEN 1 ELSE 0)

C6_ExactlyOnePlace == pc = "done" => \A t \in Range(tickers) : Places(t) = 1

\* C6 as amended: every input ticker is in at most one reported place, and a
\* ticker that returned all three metrics but fails a sanity bound is in none.
FailsSanityBound(t) ==
  /\ Fetched(t)
  /\ IsDataRow(Outcome(t))
  /\ IsNum(Outcome(t)["EBIT"]) /\ IsNum(Outcome(t)["EV"])
  /\ IsNum(Outcome(t)["Tangible Capital"])
  /\ ~MeetsBounds(Outcome(t))

C6_AtMostOnePlace ==
  \A t \in Range(tickers) :
    /\ Places(t) <= 1
    /\ FailsSanityBound(t) => Places(t) = 0

C6_Witness ==
  /\ pc = "done"
  /\ \E s, t, u \in Range(tickers) :
       /\ FailsSanityBound(s) /\ Places(s) = 0
       /\ t \in RankedTickers
       /\ u \in Range(invalid)

\* The sort happened to keep rows of equal score in the order of `rows`, as a
\* stable sort would.
RowPos(t) == CHOOSE k \in DOMAIN rows : rows[k]["Ticker"] = t
SortKeptRowOrder ==
  \A i, j \in DOMAIN valid_df :
    (i < j /\ valid_df[i]["Magic_Rank_Score"] = valid_df[j]["Magic_Rank_Score"])
      => RowPos(valid_df[i]["Ticker"]) < RowPos(valid_df[j]["Ticker"])

\* C1: the ranked output is the same whatever order the fetch tasks complete
\* in, ties included: it is the ranking the run gives when the tasks complete
\* in input order.  Stated for the runs whose sort kept tied rows in row order,
\* so that only the completion order is left to differ.
InputOrderRows == [i \in DOMAIN tickers |-> future[i]]
InputOrderRanking ==
  LET scored == Scored(Eligible(InputOrderRows))
      p == CHOOSE q \in SortOrders(scored) :
             \A i, j \in DOMAIN scored :
               (i < j /\ scored[q[i]]["Magic_Rank_Score"] = scored[q[j]]["Magic_Rank_Score"])
                 => q[i] < q[j]
  IN TickerColumn(Sorted(scored, p))

C1_CompletionOrderIrrelevant ==
  (Ranked /\ SortKeptRowOrder) => TickerColumn(valid_df) = InputOrderRanking

\* C9: the ranked output is in ascending score order, Magic_Rank is the 1-based
\* index, and rows of equal score keep the order of their tickers in the input.
\* Stated, like C1, for the runs whose sort kept tied rows in row order.
C9_TiesKeepInputOrder ==
  (Ranked /\ SortKeptRowOrder) =>
    /\ \A i \in DOMAIN valid_df : valid_df[i]["Magic_Rank"] = i
    /\ \A i, j \in DOMAIN valid_df :
         i < j =>
           /\ ~Less(valid_df[j]["Magic_Rank_Score"], valid_df[i]["Magic_Rank_Score"])
           /\ valid_df[i]["Magic_Rank_Score"] = valid_df[j]["Magic_Rank_Score"]
                => Pos(valid_df[i]["Ticker"]) < Pos(valid_df[j]["Ticker"])

\* C3: when at least one ticker returns all its metrics, no failure of another
\* ticker aborts the run, and the ranking is the one of the rows that hold
\* data, as if the failing tickers had not been in the input.
HasMetrics(t) ==
  LET r == fetch_ticker_data(t, provider[t])
  IN IsDataRow(r) /\ IsNum(r["EBIT"]) /\ IsNum(r["EV"]) /\ IsNum(r["Tangible Capital"])

C3_NoFailureAbortsRun ==
  (\E t \in Range(tickers) : HasMetrics(t)) =>
    /\ pc # "aborted"
    /\ pc \in {"report", "save", "done"} =>
         \E p \in SortOrders(Scored(Eligible(SelectSeq(rows, IsDataRow)))) :
           valid_df = Sorted(Scored(Eligible(SelectSeq(rows, IsDataRow))), p)
====
